---- MODULE Spec2Model ----
(***************************************************************************)
(* Model of the wildlife back end's Python services:                       *)
(*   - ai_models/services/seasonal_prediction_service.py                   *)
(*       (SeasonalPredictionService, get_prediction_service, main)         *)
(*   - ai_models/models/train_seasonal_model.py (SpeciesSeasonalPredictor) *)
(*   - python/predict.py (park recommender script)                         *)
(*                                                                         *)
(* Five specifications share the variables below:                          *)
(*   SpecRecommendation  the pure rule table _generate_recommendation      *)
(*   Spec                one serving process: singleton, load, predict,    *)
(*                       batch_predict, get_supported_species              *)
(*   SpecPark            one run of predict.py                             *)
(*   SpecCli             one run of the service's main()                   *)
(*   SpecReload          a serving process whose model directory changes   *)
(*                       and whose models are loaded again                 *)
(***************************************************************************)
EXTENDS Integers, Sequences, FiniteSets, TLC

VARIABLES
    \* ---- _generate_recommendation, called on its own ----
    rec_impl,      \* which class's method ran ("none" before the call)
    rec_args,      \* [behavior, activity, breeding, threat]
    rec_out,       \* returned message ("" before the call)
    \* ---- the serving process ----
    files,              \* model directory: artifact name -> what the file holds
    trained,            \* what the training run fitted and persisted
    forest_accepts_nan, \* whether the installed forest predicts on a NaN feature
    _service_instance,  \* module global: "None" or "SeasonalPredictionService"
    models_loaded,      \* self.models_loaded
    loaded,             \* self.<artifact>: "None" or what joblib.load returned
    op,                 \* the call whose outcome the caller has not yet taken, or "none"
    args,               \* its arguments
    ret,                \* its return value (<<>> when it returned nothing)
    calls,              \* encoder/model methods it invoked, in order
    probas,             \* what its predict_proba(X)[0].max() calls returned, in order
    raised,             \* exception that escaped it ("none" when it returned)
    \* ---- one run of predict.py ----
    park_model,    \* wildpark_recommender.pkl: "absent" or "trained"
    park_classes,  \* model.classes_
    park_argv,     \* sys.argv[1:]: <<>> or <<the argument>>
    park_pc,       \* "start" or "exited"
    park_vector,   \* input_vector (<<>> until built)
    park_probs,    \* model.predict_proba(input_df)[0] (<<>> until computed)
    park_stdout,   \* what the run printed: <<kind, payload>>
    park_exit,     \* exit status (NoValue while running)
    \* ---- one run of seasonal_prediction_service.py ----
    cli_argv,      \* sys.argv; the month argument is a sequence of characters
    cli_pc,        \* "start" or "exited"
    cli_stdout,    \* what main printed on standard output: <<kind, payload>>
    cli_stderr,    \* what test_predictions printed on standard error
    cli_raised     \* exception that escaped main ("none" when it returned)

rec_vars == <<rec_impl, rec_args, rec_out>>
env_vars == <<files, trained, forest_accepts_nan>>
self_vars == <<_service_instance, models_loaded, loaded>>
call_vars == <<op, args, ret, calls, probas, raised>>
service_vars == <<env_vars, self_vars, call_vars>>

park_vars == <<park_model, park_classes, park_argv, park_pc, park_vector,
               park_probs, park_stdout, park_exit>>

cli_vars == <<cli_argv, cli_pc, cli_stdout, cli_stderr, cli_raised>>

vars == <<rec_vars, service_vars, park_vars, cli_vars>>

----------------------------------------------------------------------------
(* Python's None for string-valued arguments. *)
None == "<None>"

(* Optional numbers (month, percentage, exit status): <<>> is None / NaN / *)
(* not yet set, <<n>> is n.                                                *)
NoValue == <<>>
Some(n) == <<n>>

(***************************************************************************)
(* The six messages of the rule table.                                     *)
(***************************************************************************)
MsgCritical == "CRITICAL: Increase monitoring - breeding season with high threat level"
MsgBreeding == "Increase monitoring frequency - active breeding season"
MsgThreat == "Enhanced surveillance recommended - high threat period"
MsgSurvey == "Optimal time for population surveys and data collection"
MsgReduced == "Reduced monitoring acceptable - natural low activity period"
MsgStandard == "Continue standard monitoring protocols"

(* The rule table with rules (1) and (2) tested in the wrong order: the    *)
(* critical message can then never be produced.                            *)
GenerateRecommendation_BreedingFirst(behavior, activity, breeding, threat) ==
    IF breeding THEN MsgBreeding
    ELSE IF breeding /\ threat = "high" THEN MsgCritical
    ELSE IF threat = "high" THEN MsgThreat
    ELSE IF activity = "high" THEN MsgSurvey
    ELSE IF activity = "low" THEN MsgReduced
    ELSE MsgStandard

(* SeasonalPredictionService._generate_recommendation *)
_generate_recommendation(behavior, activity, breeding, threat) ==
    IF breeding /\ threat = "high" THEN MsgCritical
    ELSE IF breeding THEN MsgBreeding
    ELSE IF threat = "high" THEN MsgThreat
    ELSE IF activity = "high" THEN MsgSurvey
    ELSE IF activity = "low" THEN MsgReduced
    ELSE MsgStandard

(* SpeciesSeasonalPredictor._generate_recommendation (training module) *)
Predictor_generate_recommendation(behavior, activity, breeding, threat) ==
    IF breeding /\ threat = "high" THEN MsgCritical
    ELSE IF breeding THEN MsgBreeding
    ELSE IF threat = "high" THEN MsgThreat
    ELSE IF activity = "high" THEN MsgSurvey
    ELSE IF activity = "low" THEN MsgReduced
    ELSE MsgStandard

(* Label universes the rule table is exercised on.  "High" (title case) is *)
(* included because the comparison is case sensitive.                      *)
ActivityLabels == <<"high", "low", "medium">>
ThreatLabels == <<"high", "low", "medium">>
BehaviorLabels == <<"hunting", "mating_display", "resting">>

RecActivities == {"high", "low", "medium", "High"}
RecThreats == {"high", "low", "medium", "High"}
RecBehaviors == {BehaviorLabels[i] : i \in 1..Len(BehaviorLabels)}

RecInputs ==
    [behavior : RecBehaviors, activity : RecActivities,
     breeding : BOOLEAN, threat : RecThreats]

RecIdle ==
    /\ rec_impl = "none"
    /\ rec_args = [behavior |-> "hunting", activity |-> "medium",
                   breeding |-> FALSE, threat |-> "low"]
    /\ rec_out = ""

ParkIdle ==
    /\ park_model = "trained"
    /\ park_classes = <<>>
    /\ park_argv = <<>>
    /\ park_pc = "start"
    /\ park_vector = <<>>
    /\ park_probs = <<>>
    /\ park_stdout = <<"nothing", <<>>>>
    /\ park_exit = NoValue

CliIdle ==
    /\ cli_argv = <<>>
    /\ cli_pc = "start"
    /\ cli_stdout = <<"nothing", <<>>>>
    /\ cli_stderr = "nothing"
    /\ cli_raised = "none"

----------------------------------------------------------------------------
(***************************************************************************)
(* The model directory and the training run.                               *)
(***************************************************************************)
Models == <<"breeding_model", "activity_model", "threat_model",
            "behavior_model", "population_model">>
Encoders == <<"species_encoder", "behavior_encoder",
              "migration_encoder", "weather_encoder">>

(* The nine files in the order load_models reads them. *)
LoadOrder == Models \o Encoders

Artifacts == {LoadOrder[i] : i \in 1..Len(LoadOrder)}
ModelNames == {Models[i] : i \in 1..Len(Models)}

(* What a file of the model directory can hold:                            *)
(*   "absent"     no file, or one joblib.load cannot read (it raises)      *)
(*   "trained"    the artifact save_models wrote                           *)
(*   "regressor"  a forest with predict but no predict_proba               *)
(*   "foreign"    any other pickled object: it loads, and has none of      *)
(*                transform / inverse_transform / predict / predict_proba  *)
FileKinds(a) ==
    IF a \in ModelNames THEN {"absent", "trained", "regressor", "foreign"}
    ELSE {"absent", "trained", "foreign"}

(* Bound: how many of the nine files differ from what training wrote. *)
MaxDefects == 1

AsTrained == [a \in Artifacts |-> "trained"]

RECURSIVE Damaged(_)
Damaged(n) ==
    IF n = 0 THEN {AsTrained}
    ELSE LET prev == Damaged(n - 1)
         IN  prev \cup UNION { UNION { {[d EXCEPT ![a] = k] : k \in FileKinds(a)}
                                       : a \in Artifacts }
                               : d \in prev }

Directories == Damaged(MaxDefects)

(* Training runs: the classes_ of the four fitted LabelEncoders (sorted,   *)
(* as LabelEncoder.fit leaves them), the months every species was observed *)
(* in, and a seed standing for the fitted forests.  The second run never   *)
(* saw the defaults 'territorial' and 'moderate'.                          *)
TrainedRuns ==
    { [species_classes |-> <<"Elephant", "Tiger">>,
       migration_classes |-> <<"migratory", "territorial">>,
       weather_classes |-> <<"cold", "moderate">>,
       behavior_classes |-> <<"hunting", "mating_display", "resting">>,
       months |-> {1, 12},
       seed |-> 0],
      [species_classes |-> <<"Elephant", "Leopard", "Tiger">>,
       migration_classes |-> <<"migratory", "nomadic">>,
       weather_classes |-> <<"cold", "warm">>,
       behavior_classes |-> <<"hunting", "mating_display">>,
       months |-> {1, 12},
       seed |-> 1] }

Range(seq) == {seq[i] : i \in 1..Len(seq)}

(***************************************************************************)
(* joblib.load over the nine files, in order, inside one try block.        *)
(***************************************************************************)
FirstAbsent(disk) ==
    IF \E i \in 1..Len(LoadOrder) : disk[LoadOrder[i]] = "absent"
    THEN CHOOSE i \in 1..Len(LoadOrder) :
            /\ disk[LoadOrder[i]] = "absent"
            /\ \A k \in 1..(i - 1) : disk[LoadOrder[k]] # "absent"
    ELSE Len(LoadOrder) + 1

PositionOf(a) == CHOOSE i \in 1..Len(LoadOrder) : LoadOrder[i] = a

(* load_models with the flag set before the files are read and an except   *)
(* clause that does not clear it.                                          *)
LoadModels_FlagSetFirst(disk, fields) ==
    [models_loaded |-> TRUE,
     loaded |-> [a \in Artifacts |->
                    IF PositionOf(a) < FirstAbsent(disk) THEN disk[a] ELSE fields[a]]]

(* load_models with the flag computed from the fields (true when all nine  *)
(* are set) instead of from the outcome of this load.                      *)
LoadModels_FlagFromFields(disk, fields) ==
    [models_loaded |->
        \A a \in Artifacts :
            (IF PositionOf(a) < FirstAbsent(disk) THEN disk[a] ELSE fields[a]) # "None",
     loaded |-> [a \in Artifacts |->
                    IF PositionOf(a) < FirstAbsent(disk) THEN disk[a] ELSE fields[a]]]

(* SeasonalPredictionService.load_models: fields assigned before the first *)
(* failing joblib.load keep their new value, later ones keep the old one.  *)
load_models(disk, fields) ==
    [models_loaded |-> (FirstAbsent(disk) > Len(LoadOrder)),
     loaded |-> [a \in Artifacts |->
                    IF PositionOf(a) < FirstAbsent(disk) THEN disk[a] ELSE fields[a]]]

(* SeasonalPredictionService.__init__: all nine fields None, flag False,   *)
(* then load_models.                                                       *)
ServiceInit(disk) == load_models(disk, [a \in Artifacts |-> "None"])

(***************************************************************************)
(* LabelEncoder.                                                           *)
(***************************************************************************)
ClassesOf(enc) ==
    CASE enc = "species_encoder" -> trained.species_classes
      [] enc = "migration_encoder" -> trained.migration_classes
      [] enc = "weather_encoder" -> trained.weather_classes
      [] enc = "behavior_encoder" -> trained.behavior_classes

(* Outcome of self.<enc>.transform([value]). *)
TransformOutcome(self, enc, value) ==
    IF self.loaded[enc] # "trained" THEN "AttributeError"
    ELSE IF value \in Range(ClassesOf(enc)) THEN "ok"
    ELSE "ValueError"

(* The code transform returns: the 0-based position in classes_. *)
TransformCode(enc, value) ==
    (CHOOSE i \in 1..Len(ClassesOf(enc)) : ClassesOf(enc)[i] = value) - 1

(* Outcome of self.behavior_encoder.inverse_transform([code]). *)
InverseOutcome(self, code) ==
    IF self.loaded["behavior_encoder"] # "trained" THEN "AttributeError"
    ELSE IF code \in 0..(Len(trained.behavior_classes) - 1) THEN "ok"
    ELSE "ValueError"

InverseLabel(code) == trained.behavior_classes[code + 1]

Call(obj, method) == <<obj, method>>

FeatureEncoders == <<"species_encoder", "migration_encoder", "weather_encoder">>

(* prepare_features returns [raised, X, calls]: the exception it raises or *)
(* "none"; the one-row frame [species_encoded, month, migration_encoded,   *)
(* weather_encoded]; the transforms it invoked, the failing one included.  *)
(* The three transforms run in one try block; `except ValueError` assigns  *)
(* [0] to all three encoded columns.                                       *)
prepare_features(self, species, month, migration_tendency, weather_preference) ==
    IF ~self.models_loaded
    THEN [raised |-> "Exception", X |-> <<>>, calls |-> <<>>]
    ELSE
      LET mig == IF migration_tendency = None THEN "territorial"
                 ELSE migration_tendency
          wea == IF weather_preference = None THEN "moderate"
                 ELSE weather_preference
          values == <<species, mig, wea>>
          outcome(i) == TransformOutcome(self, FeatureEncoders[i], values[i])
          bad == {i \in 1..3 : outcome(i) # "ok"}
          first == IF bad = {} THEN 0 ELSE CHOOSE i \in bad : \A k \in bad : i <= k
          invoked == [i \in 1..(IF first = 0 THEN 3 ELSE first) |->
                         Call(FeatureEncoders[i], "transform")]
          code(i) == TransformCode(FeatureEncoders[i], values[i])
      IN  IF first = 0
          THEN [raised |-> "none",
                X |-> <<code(1), month, code(2), code(3)>>,
                calls |-> invoked]
          ELSE IF outcome(first) = "ValueError"
          THEN [raised |-> "none", X |-> <<0, month, 0, 0>>, calls |-> invoked]
          ELSE [raised |-> outcome(first), X |-> <<>>, calls |-> invoked]

(***************************************************************************)
(* The fitted forests.  A forest is a fixed function of the feature row;   *)
(* which function is decided by the training run (trained.seed).           *)
(***************************************************************************)
(* Bound: class probabilities are multiples of 1/ProbUnits. *)
ProbUnits == 7

MonthValue(X) == IF X[2] = NoValue THEN 0 ELSE X[2][1]

Hash(X, salt) == 5 * X[1] + 3 * MonthValue(X) + 2 * X[3] + X[4] + trained.seed + salt

BreedingOf(X) == Hash(X, 0) % 2 = 1
ActivityOf(X) == ActivityLabels[(Hash(X, 1) % Len(ActivityLabels)) + 1]
ThreatOf(X) == ThreatLabels[((Hash(X, 2) \div 2) % Len(ThreatLabels)) + 1]
BehaviorCodeOf(X) == Hash(X, 3) % Len(trained.behavior_classes)
PopulationOf(X) == (Hash(X, 4) \div 2) % 2 = 1

(* predict_proba(X)[0].max(), as a number of 1/ProbUnits. *)
MaxProba(model, X) == 1 + (Hash(X, PositionOf(model)) % ProbUnits)

(* Outcome of self.<model>.predict(X). *)
PredictOutcome(self, model, X) ==
    IF self.loaded[model] \notin {"trained", "regressor"} THEN "AttributeError"
    ELSE IF X[2] = NoValue /\ ~forest_accepts_nan THEN "ValueError"
    ELSE "ok"

(* Outcome of self.<model>.predict_proba(X). *)
ProbaOutcome(self, model, X) ==
    IF self.loaded[model] # "trained" THEN "AttributeError"
    ELSE IF X[2] = NoValue /\ ~forest_accepts_nan THEN "ValueError"
    ELSE "ok"

(* Outcome of decoding what behavior_model.predict returned: a regressor   *)
(* returns a number that is not one of the encoder's codes.                *)
DecodeOutcome(self, X) ==
    IF self.loaded["behavior_model"] = "trained" THEN InverseOutcome(self, BehaviorCodeOf(X))
    ELSE IF self.loaded["behavior_encoder"] # "trained" THEN "AttributeError"
    ELSE "ValueError"

(* Python's `value or default` for a string or None. *)
Or(value, default) == IF value \in {None, ""} THEN default ELSE value

(* str.title() on the labels. *)
Title(label) ==
    CASE label = "high" -> "High"
      [] label = "low" -> "Low"
      [] label = "medium" -> "Medium"
      [] OTHER -> label

(* f'{avg:.2%}' for avg = num / den: the percentage in hundredths of a     *)
(* percent, rounded to nearest (ties to even).                             *)
FormatPercent(num, den) ==
    LET q == (10000 * num) \div den
        r == (10000 * num) % den
    IN  IF 2 * r < den THEN q
        ELSE IF 2 * r > den THEN q + 1
        ELSE IF q % 2 = 0 THEN q ELSE q + 1

(* The fallback dict reporting success. *)
Fallback_ReportsSuccess ==
    [primaryBehavior |-> "normal_activity",
     breedingSeason |-> FALSE,
     breedingPeak |-> FALSE,
     activityLevel |-> "Normal",
     threatLevel |-> "Low",
     migrationTendency |-> "territorial",
     populationPeak |-> FALSE,
     recommendation |-> "Continue regular monitoring",
     confidence |-> [text |-> "Low - Models not available, using fallback",
                     percent |-> NoValue],
     success |-> TRUE]

(* The fallback dict as SpeciesSeasonalPredictor builds it: no success key. *)
Fallback_WithoutSuccessKey ==
    [primaryBehavior |-> "normal_activity",
     breedingSeason |-> FALSE,
     breedingPeak |-> FALSE,
     activityLevel |-> "Normal",
     threatLevel |-> "Low",
     migrationTendency |-> "territorial",
     populationPeak |-> FALSE,
     recommendation |-> "Continue regular monitoring",
     confidence |-> [text |-> "Low - Fallback values used",
                     percent |-> NoValue]]

(* SeasonalPredictionService._get_fallback_prediction *)
_get_fallback_prediction ==
    [primaryBehavior |-> "normal_activity",
     breedingSeason |-> FALSE,
     breedingPeak |-> FALSE,
     activityLevel |-> "Normal",
     threatLevel |-> "Low",
     migrationTendency |-> "territorial",
     populationPeak |-> FALSE,
     recommendation |-> "Continue regular monitoring",
     confidence |-> [text |-> "Low - Models not available, using fallback",
                     percent |-> NoValue],
     success |-> FALSE]

(* The library calls of the try block after prepare_features, in order. *)
PredictSteps ==
    << Call("breeding_model", "predict"),
       Call("activity_model", "predict"),
       Call("threat_model", "predict"),
       Call("behavior_model", "predict"),
       Call("population_model", "predict"),
       Call("behavior_encoder", "inverse_transform"),
       Call("breeding_model", "predict_proba"),
       Call("activity_model", "predict_proba"),
       Call("threat_model", "predict_proba"),
       Call("behavior_model", "predict_proba") >>

StepOutcome(self, step, X) ==
    CASE step[2] = "predict" -> PredictOutcome(self, step[1], X)
      [] step[2] = "predict_proba" -> ProbaOutcome(self, step[1], X)
      [] step[2] = "inverse_transform" -> DecodeOutcome(self, X)

(* The four probabilities that enter the average. *)
ConfidenceModels == <<"breeding_model", "activity_model", "threat_model", "behavior_model">>

SumSeq(seq) ==
    LET RECURSIVE S(_)
        S(n) == IF n = 0 THEN 0 ELSE seq[n] + S(n - 1)
    IN  S(Len(seq))

(* The result dict with breedingPeak copied from populationPeak. *)
SuccessResult_PeakIsPopulation(X, migration_tendency, probs) ==
    [primaryBehavior |-> InverseLabel(BehaviorCodeOf(X)),
     breedingSeason |-> BreedingOf(X),
     breedingPeak |-> PopulationOf(X),
     activityLevel |-> Title(ActivityOf(X)),
     threatLevel |-> Title(ThreatOf(X)),
     migrationTendency |-> Or(migration_tendency, "territorial"),
     populationPeak |-> PopulationOf(X),
     recommendation |-> _generate_recommendation(InverseLabel(BehaviorCodeOf(X)),
                            ActivityOf(X), BreedingOf(X), ThreatOf(X)),
     confidence |-> [text |-> "High - AI Model",
                     percent |-> Some(FormatPercent(SumSeq(probs), 4 * ProbUnits))],
     success |-> TRUE]

(* The result dict with the population model's probability joining the     *)
(* average, which is then over five values.                                *)
SuccessResult_FiveProbabilities(X, migration_tendency, probs) ==
    [primaryBehavior |-> InverseLabel(BehaviorCodeOf(X)),
     breedingSeason |-> BreedingOf(X),
     breedingPeak |-> (PopulationOf(X) /\ BreedingOf(X)),
     activityLevel |-> Title(ActivityOf(X)),
     threatLevel |-> Title(ThreatOf(X)),
     migrationTendency |-> Or(migration_tendency, "territorial"),
     populationPeak |-> PopulationOf(X),
     recommendation |-> _generate_recommendation(InverseLabel(BehaviorCodeOf(X)),
                            ActivityOf(X), BreedingOf(X), ThreatOf(X)),
     confidence |-> [text |-> "High - AI Model",
                     percent |-> Some(FormatPercent(
                         SumSeq(probs) + MaxProba("population_model", X),
                         5 * ProbUnits))],
     success |-> TRUE]

(* The dict built at the end of the try block. *)
SuccessResult(X, migration_tendency, probs) ==
    [primaryBehavior |-> InverseLabel(BehaviorCodeOf(X)),
     breedingSeason |-> BreedingOf(X),
     breedingPeak |-> (PopulationOf(X) /\ BreedingOf(X)),
     activityLevel |-> Title(ActivityOf(X)),
     threatLevel |-> Title(ThreatOf(X)),
     migrationTendency |-> Or(migration_tendency, "territorial"),
     populationPeak |-> PopulationOf(X),
     recommendation |-> _generate_recommendation(InverseLabel(BehaviorCodeOf(X)),
                            ActivityOf(X), BreedingOf(X), ThreatOf(X)),
     confidence |-> [text |-> "High - AI Model",
                     percent |-> Some(FormatPercent(SumSeq(probs), 4 * ProbUnits))],
     success |-> TRUE]

(* predict_seasonal_behavior returns [ret, calls, probas]; it never lets   *)
(* an Exception escape.                                                    *)
predict_seasonal_behavior(self, species, month, migration_tendency, weather_preference) ==
    IF ~self.models_loaded
    THEN [ret |-> _get_fallback_prediction, calls |-> <<>>, probas |-> <<>>]
    ELSE
      LET f == prepare_features(self, species, month, migration_tendency, weather_preference)
          bad == {i \in 1..Len(PredictSteps) : StepOutcome(self, PredictSteps[i], f.X) # "ok"}
          first == IF bad = {} THEN 0 ELSE CHOOSE i \in bad : \A k \in bad : i <= k
          invoked == SubSeq(PredictSteps, 1, IF first = 0 THEN Len(PredictSteps) ELSE first)
          answered == IF first = 0 THEN Len(PredictSteps) ELSE first - 1
          probs == [i \in 1..(IF answered > 6 THEN answered - 6 ELSE 0) |->
                       MaxProba(ConfidenceModels[i], f.X)]
      IN  IF f.raised # "none"
          THEN [ret |-> _get_fallback_prediction, calls |-> f.calls, probas |-> <<>>]
          ELSE IF first # 0
          THEN [ret |-> _get_fallback_prediction, calls |-> f.calls \o invoked,
                probas |-> probs]
          ELSE [ret |-> SuccessResult(f.X, migration_tendency, probs),
                calls |-> f.calls \o invoked, probas |-> probs]

(* get_supported_species: [] unless loaded; list(classes_) or [] on error. *)
get_supported_species(self) ==
    IF ~self.models_loaded THEN <<>>
    ELSE IF self.loaded["species_encoder"] = "trained" THEN trained.species_classes
    ELSE <<>>

(***************************************************************************)
(* batch_predict.  An element is a dict (its present keys and their        *)
(* values) or some other JSON value, which has no .get.                    *)
(***************************************************************************)
RequestKeys == {"species", "month", "migration_tendency", "weather_preference"}

Dict(keys, species, month, migration, weather) ==
    [kind |-> "dict", keys |-> keys, species |-> species, month |-> month,
     migration_tendency |-> migration, weather_preference |-> weather]

NotADict == [kind |-> "str", keys |-> {}, species |-> None, month |-> NoValue,
             migration_tendency |-> None, weather_preference |-> None]

(* item.get(key) on a dict: the value, or None when the key is missing. *)
Get(item, key) ==
    IF key \in item.keys THEN item[key]
    ELSE IF key = "month" THEN NoValue ELSE None

PredictItem(self, item) ==
    predict_seasonal_behavior(self, Get(item, "species"), Get(item, "month"),
                              Get(item, "migration_tendency"),
                              Get(item, "weather_preference"))

RECURSIVE ConcatCalls(_, _, _)
ConcatCalls(self, items, n) ==
    IF n = 0 THEN <<>>
    ELSE ConcatCalls(self, items, n - 1) \o PredictItem(self, items[n]).calls

(* batch_predict returns [raised, ret, calls]: item.get on an element that *)
(* is not a dict raises AttributeError out of the loop and of the method.  *)
batch_predict(self, predictions_list) ==
    LET bad == {i \in 1..Len(predictions_list) : predictions_list[i].kind # "dict"}
        first == IF bad = {} THEN 0 ELSE CHOOSE i \in bad : \A k \in bad : i <= k
    IN  IF first # 0
        THEN [raised |-> "AttributeError", ret |-> <<>>,
              calls |-> ConcatCalls(self, predictions_list, first - 1)]
        ELSE [raised |-> "none",
              ret |-> [i \in 1..Len(predictions_list) |->
                          [species |-> Get(predictions_list[i], "species"),
                           month |-> Get(predictions_list[i], "month"),
                           prediction |-> PredictItem(self, predictions_list[i]).ret]],
              calls |-> ConcatCalls(self, predictions_list, Len(predictions_list))]

(***************************************************************************)
(* The serving process.                                                    *)
(***************************************************************************)
SpeciesArgs == {"Elephant", "Tiger", "Unicorn", None}
MonthArgs == {NoValue, Some(1), Some(12)}
MigrationArgs == {None, "migratory", "nomadic"}
WeatherArgs == {None, "cold", "arid"}

Requests ==
    [species : SpeciesArgs, month : MonthArgs,
     migration_tendency : MigrationArgs, weather_preference : WeatherArgs]

(* Bound: longest list handed to batch_predict. *)
MaxBatch == 2

BatchItems ==
    { Dict({"species", "month"}, "Tiger", Some(12), None, None),
      Dict(RequestKeys, "Elephant", Some(1), "migratory", "cold"),
      Dict({"month"}, None, Some(12), None, None),
      Dict({}, None, NoValue, None, None),
      NotADict }

Batches == UNION {[1..n -> BatchItems] : n \in 0..MaxBatch}

(* The service object the process holds. *)
Self == [models_loaded |-> models_loaded, loaded |-> loaded]

NoCall ==
    /\ op = "none"
    /\ args = <<>>
    /\ ret = <<>>
    /\ calls = <<>>
    /\ probas = <<>>
    /\ raised = "none"

ServiceIdle ==
    /\ files = AsTrained
    /\ trained = CHOOSE t \in TrainedRuns : t.seed = 0
    /\ forest_accepts_nan = FALSE
    /\ _service_instance = "None"
    /\ models_loaded = FALSE
    /\ loaded = [a \in Artifacts |-> "None"]
    /\ NoCall

(* Process start: nothing constructed yet. *)
InitService ==
    /\ files \in Directories
    /\ trained \in TrainedRuns
    /\ forest_accepts_nan \in BOOLEAN
    /\ _service_instance = "None"
    /\ models_loaded = FALSE
    /\ loaded = [a \in Artifacts |-> "None"]
    /\ NoCall

(* get_prediction_service() constructing a service on every call. *)
GetPredictionService_AlwaysConstructs ==
    /\ op = "none"
    /\ _service_instance' = "SeasonalPredictionService"
    /\ models_loaded' = ServiceInit(files).models_loaded
    /\ loaded' = ServiceInit(files).loaded
    /\ op' = "get_prediction_service"
    /\ args' = <<>>
    /\ ret' = <<>>
    /\ calls' = <<>>
    /\ probas' = <<>>
    /\ raised' = "none"
    /\ UNCHANGED env_vars

(* get_prediction_service(): constructs the service on the first call. *)
GetPredictionService ==
    /\ op = "none"
    /\ IF _service_instance = "None"
       THEN /\ _service_instance' = "SeasonalPredictionService"
            /\ models_loaded' = ServiceInit(files).models_loaded
            /\ loaded' = ServiceInit(files).loaded
       ELSE UNCHANGED self_vars
    /\ op' = "get_prediction_service"
    /\ args' = <<>>
    /\ ret' = <<>>
    /\ calls' = <<>>
    /\ probas' = <<>>
    /\ raised' = "none"
    /\ UNCHANGED env_vars

(* service.predict_seasonal_behavior(species, month, migration, weather) *)
PredictSeasonalBehavior ==
    /\ op = "none"
    /\ _service_instance # "None"
    /\ \E r \in Requests :
          \E out \in {predict_seasonal_behavior(Self, r.species, r.month,
                         r.migration_tendency, r.weather_preference)} :
              /\ op' = "predict_seasonal_behavior"
              /\ args' = r
              /\ ret' = out.ret
              /\ calls' = out.calls
              /\ probas' = out.probas
              /\ raised' = "none"
    /\ UNCHANGED <<env_vars, self_vars>>

(* service.prepare_features(species, month, migration, weather) *)
PrepareFeatures ==
    /\ op = "none"
    /\ _service_instance # "None"
    /\ \E r \in Requests :
          \E out \in {prepare_features(Self, r.species, r.month,
                         r.migration_tendency, r.weather_preference)} :
              /\ op' = "prepare_features"
              /\ args' = r
              /\ ret' = out.X
              /\ calls' = out.calls
              /\ probas' = <<>>
              /\ raised' = out.raised
    /\ UNCHANGED <<env_vars, self_vars>>

(* service.batch_predict(predictions_list) *)
BatchPredict ==
    /\ op = "none"
    /\ _service_instance # "None"
    /\ \E b \in Batches :
          \E out \in {batch_predict(Self, b)} :
              /\ op' = "batch_predict"
              /\ args' = b
              /\ ret' = out.ret
              /\ calls' = out.calls
              /\ probas' = <<>>
              /\ raised' = out.raised
    /\ UNCHANGED <<env_vars, self_vars>>

(* service.get_supported_species() *)
GetSupportedSpecies ==
    /\ op = "none"
    /\ _service_instance # "None"
    /\ op' = "get_supported_species"
    /\ args' = <<>>
    /\ ret' = get_supported_species(Self)
    /\ calls' = <<>>
    /\ probas' = <<>>
    /\ raised' = "none"
    /\ UNCHANGED <<env_vars, self_vars>>

(* The caller takes the return value (or the exception); the process is   *)
(* ready for the next call.                                                *)
Consume ==
    /\ op # "none"
    /\ op' = "none"
    /\ args' = <<>>
    /\ ret' = <<>>
    /\ calls' = <<>>
    /\ probas' = <<>>
    /\ raised' = "none"
    /\ UNCHANGED <<env_vars, self_vars>>

Init == InitService /\ RecIdle /\ ParkIdle /\ CliIdle

Next ==
    \/ GetPredictionService /\ UNCHANGED <<rec_vars, park_vars, cli_vars>>
    \/ PredictSeasonalBehavior /\ UNCHANGED <<rec_vars, park_vars, cli_vars>>
    \/ PrepareFeatures /\ UNCHANGED <<rec_vars, park_vars, cli_vars>>
    \/ BatchPredict /\ UNCHANGED <<rec_vars, park_vars, cli_vars>>
    \/ GetSupportedSpecies /\ UNCHANGED <<rec_vars, park_vars, cli_vars>>
    \/ Consume /\ UNCHANGED <<rec_vars, park_vars, cli_vars>>

Spec == Init /\ [][Next]_vars

----------------------------------------------------------------------------
(***************************************************************************)
(* predict.py: the park recommender script.                                *)
(***************************************************************************)
FEATURE_ORDER ==
    << "mammals", "birds", "reptiles", "amphibians", "insects",
       "safari", "camping", "birdwatching", "hiking",
       "forest", "wetland", "mountain", "coastal",
       "family", "adventure", "relaxation" >>

(* Bound: number of parks the classifier was fitted on. *)
MaxParks == 4

ParkNames == <<"Horton Plains", "Kumana", "Wilpattu", "Yala", "Minneriya", "Sinharaja">>

(* The command-line argument.  kind "invalid" is text json.loads rejects;  *)
(* the other kinds are what json.loads returns.  d holds an object's keys  *)
(* and values.                                                             *)
JsonValue(kind, d) == [kind |-> kind, d |-> d]

ParkKeys == {"mammals", "hiking", "altitude"}

ParkObjects == UNION {[K -> {0, 1}] : K \in SUBSET ParkKeys}

ParkArguments ==
    {JsonValue(k, <<>>) : k \in {"invalid", "list", "number", "string", "null"}}
    \cup {JsonValue("object", d) : d \in ParkObjects}

(* user_features.get(feature, 0) *)
GetFeature(user_features, feature) ==
    IF feature \in DOMAIN user_features.d THEN user_features.d[feature] ELSE 0

(* input_vector = [user_features.get(feature, 0) for feature in FEATURE_ORDER] *)
InputVector(user_features) ==
    [i \in 1..Len(FEATURE_ORDER) |-> GetFeature(user_features, FEATURE_ORDER[i])]

(* predict_proba: a distribution over the classes, in 1/ProbUnits. *)
RECURSIVE Rows(_, _)
Rows(n, total) ==
    IF n = 0 THEN (IF total = 0 THEN {<<>>} ELSE {})
    ELSE UNION { {row \o <<k>> : row \in Rows(n - 1, total - k)} : k \in 0..total }

Distributions == [n \in 1..MaxParks |-> Rows(n, ProbUnits)]

(* The orders in which n indices can come. *)
Orders ==
    [n \in 1..MaxParks |->
        {o \in [1..n -> 1..n] : \A i, j \in 1..n : i # j => o[i] # o[j]}]

(* probs.argsort(): the indices in ascending order of probability; equal   *)
(* probabilities may come in either order.                                 *)
ArgSorts(probs) ==
    {o \in Orders[Len(probs)] :
        \A i \in 1..(Len(probs) - 1) : probs[o[i]] <= probs[o[i + 1]]}

Min(a, b) == IF a <= b THEN a ELSE b

(* The slicing without the reversal: [-3:] only. *)
TopIndices_NotReversed(order) ==
    LET n == Len(order)
        k == Min(3, n)
    IN  [i \in 1..k |-> order[n - k + i]]

(* probs.argsort()[-3:][::-1] *)
TopIndices(order) ==
    LET n == Len(order)
        k == Min(3, n)
    IN  [i \in 1..k |-> order[n + 1 - i]]

(* [{"park": classes[i], "score": float(probs[i])} for i in top_indices] *)
Recommendations(classes, probs, order) ==
    LET top == TopIndices(order)
    IN  [i \in 1..Len(top) |-> [park |-> classes[top[i]], score |-> probs[top[i]]]]

InitPark ==
    /\ park_model \in {"absent", "trained"}
    /\ park_classes \in {SubSeq(ParkNames, 1, n) : n \in 1..MaxParks}
    /\ park_argv \in {<<>>} \cup {<<a>> : a \in ParkArguments}
    /\ park_pc = "start"
    /\ park_vector = <<>>
    /\ park_probs = <<>>
    /\ park_stdout = <<"nothing", <<>>>>
    /\ park_exit = NoValue
    /\ RecIdle
    /\ ServiceIdle
    /\ CliIdle

(* The whole script.  joblib.load runs before the argument is looked at;   *)
(* only the json.loads block is inside try/except; an uncaught exception   *)
(* ends the interpreter with status 1.                                     *)
RunPredictPy ==
    /\ park_pc = "start"
    /\ park_pc' = "exited"
    /\ IF park_model = "absent"
       THEN \* line 15: joblib.load raises
            /\ park_stdout' = <<"nothing", <<>>>>
            /\ park_exit' = Some(1)
            /\ UNCHANGED <<park_vector, park_probs>>
       ELSE IF park_argv = <<>> \/ park_argv[1].kind = "invalid"
       THEN \* lines 22-25: ValueError / JSONDecodeError caught
            /\ park_stdout' = <<"error", "Invalid input">>
            /\ park_exit' = Some(0)
            /\ UNCHANGED <<park_vector, park_probs>>
       ELSE IF park_argv[1].kind # "object"
       THEN \* line 28: .get on a list, number, string or None
            /\ park_stdout' = <<"nothing", <<>>>>
            /\ park_exit' = Some(1)
            /\ UNCHANGED <<park_vector, park_probs>>
       ELSE /\ park_vector' = InputVector(park_argv[1])
            /\ \E probs \in Distributions[Len(park_classes)] :
                  \E order \in ArgSorts(probs) :
                     /\ park_probs' = probs
                     /\ park_stdout' = <<"recommendations",
                                         Recommendations(park_classes, probs, order)>>
            /\ park_exit' = Some(0)
    /\ UNCHANGED <<park_model, park_classes, park_argv>>

NextPark == RunPredictPy /\ UNCHANGED <<rec_vars, service_vars, cli_vars>>

SpecPark == InitPark /\ [][NextPark]_vars

----------------------------------------------------------------------------
(***************************************************************************)
(* main(): the command line of seasonal_prediction_service.py.             *)
(***************************************************************************)
Prog == "seasonal_prediction_service.py"

(* int(text) for a text given as its characters: an optional sign followed *)
(* by at least one digit; anything else raises ValueError.                 *)
DigitChars == <<"0", "1", "2", "3", "4", "5", "6", "7", "8", "9">>

IsDigit(c) == c \in Range(DigitChars)
DigitValue(c) == (CHOOSE i \in 1..Len(DigitChars) : DigitChars[i] = c) - 1

Unsigned(text) ==
    LET RECURSIVE V(_)
        V(n) == IF n = 0 THEN 0 ELSE 10 * V(n - 1) + DigitValue(text[n])
    IN  V(Len(text))

AllDigits(text) == Len(text) > 0 /\ \A i \in 1..Len(text) : IsDigit(text[i])

IntOutcome(text) ==
    IF AllDigits(text) THEN "ok"
    ELSE IF Len(text) > 1 /\ text[1] \in {"-", "+"} /\ AllDigits(Tail(text)) THEN "ok"
    ELSE "ValueError"

IntValue(text) ==
    IF AllDigits(text) THEN Unsigned(text)
    ELSE IF text[1] = "-" THEN 0 - Unsigned(Tail(text))
    ELSE Unsigned(Tail(text))

TestCases == << <<"Tiger", 12>>, <<"Elephant", 7>>, <<"Leopard", 2>>,
                <<"Rhinoceros", 3>>, <<"Giant Panda", 3>> >>

(* test_predictions(): reports on standard error only; every key it reads  *)
(* is in both the predicted and the fallback dict.                         *)
test_predictions(self) ==
    IF ~self.models_loaded THEN "models not loaded"
    ELSE IF \A i \in 1..Len(TestCases) :
               DOMAIN predict_seasonal_behavior(self, TestCases[i][1],
                          Some(TestCases[i][2]), None, None).ret
                   = DOMAIN _get_fallback_prediction
         THEN "test report"
         ELSE "KeyError"

Returned(out, err) == [stdout |-> out, stderr |-> err, raised |-> "none"]

(* main without the `len(sys.argv) < 4` test: reading sys.argv[2] or       *)
(* sys.argv[3] then raises IndexError.                                     *)
Main_NoArityCheck(argv, self) ==
    IF Len(argv) < 2
    THEN Returned(<<"usage", "Usage: python seasonal_prediction_service.py <command> [args...]">>,
                  "nothing")
    ELSE LET command == argv[2]
         IN  IF command = "predict"
             THEN IF Len(argv) < 4
                  THEN [stdout |-> <<"nothing", <<>>>>, stderr |-> "nothing",
                        raised |-> "IndexError"]
                  ELSE IF IntOutcome(argv[4]) # "ok"
                  THEN Returned(<<"json error", "month must be a valid integer">>, "nothing")
                  ELSE Returned(<<"json object",
                           predict_seasonal_behavior(self, argv[3], Some(IntValue(argv[4])),
                               IF Len(argv) > 4 THEN argv[5] ELSE None,
                               IF Len(argv) > 5 THEN argv[6] ELSE None).ret>>, "nothing")
             ELSE IF command = "get_supported_species"
             THEN Returned(<<"json array", get_supported_species(self)>>, "nothing")
             ELSE IF command = "test"
             THEN Returned(<<"nothing", <<>>>>, test_predictions(self))
             ELSE Returned(<<"json error", "Unknown command">>, "nothing")

(* main(), given sys.argv and the service get_prediction_service() returns *)
(* (which is constructed only when a command is present).  Python's        *)
(* sys.argv[k] is argv[k + 1] here.                                        *)
main(argv, self) ==
    IF Len(argv) < 2
    THEN Returned(<<"usage", "Usage: python seasonal_prediction_service.py <command> [args...]">>,
                  "nothing")
    ELSE LET command == argv[2]
         IN  IF command = "predict"
             THEN IF Len(argv) < 4
                  THEN Returned(<<"json error",
                                  "predict requires species and month arguments">>,
                                "nothing")
                  ELSE IF IntOutcome(argv[4]) # "ok"
                  THEN Returned(<<"json error", "month must be a valid integer">>, "nothing")
                  ELSE Returned(<<"json object",
                           predict_seasonal_behavior(self, argv[3], Some(IntValue(argv[4])),
                               IF Len(argv) > 4 THEN argv[5] ELSE None,
                               IF Len(argv) > 5 THEN argv[6] ELSE None).ret>>, "nothing")
             ELSE IF command = "get_supported_species"
             THEN Returned(<<"json array", get_supported_species(self)>>, "nothing")
             ELSE IF command = "test"
             THEN Returned(<<"nothing", <<>>>>, test_predictions(self))
             ELSE Returned(<<"json error", "Unknown command">>, "nothing")

(* Command lines. *)
Commands == {"predict", "get_supported_species", "test", "status"}
CliSpecies == {"Tiger", "Unicorn"}
CliMigrations == {"migratory", ""}
CliWeathers == {"arid"}

(* Bound: longest month argument, in characters. *)
MaxMonthChars == 2

MonthChars == {"1", "2", "-", "x"}
MonthTexts == UNION {[1..n -> MonthChars] : n \in 0..MaxMonthChars}

CommandLines ==
    {<<Prog>>}
    \cup {<<Prog, c>> : c \in Commands}
    \cup {<<Prog, c, sp>> : c \in Commands, sp \in CliSpecies}
    \cup {<<Prog, c, sp, m>> : c \in Commands, sp \in CliSpecies, m \in MonthTexts}
    \cup {<<Prog, c, sp, m, g>> : c \in Commands, sp \in CliSpecies, m \in MonthTexts,
                                 g \in CliMigrations}
    \cup {<<Prog, c, sp, m, g, w>> : c \in Commands, sp \in CliSpecies, m \in MonthTexts,
                                    g \in CliMigrations, w \in CliWeathers}

(* Model directories the command line is run against: as trained, first   *)
(* or last file absent, species encoder replaced.                          *)
CliDirectories ==
    { AsTrained,
      [AsTrained EXCEPT !["breeding_model"] = "absent"],
      [AsTrained EXCEPT !["weather_encoder"] = "absent"],
      [AsTrained EXCEPT !["species_encoder"] = "foreign"] }

InitCli ==
    /\ files \in CliDirectories
    /\ trained \in TrainedRuns
    /\ forest_accepts_nan \in BOOLEAN
    /\ _service_instance = "None"
    /\ models_loaded = FALSE
    /\ loaded = [a \in Artifacts |-> "None"]
    /\ NoCall
    /\ cli_argv \in CommandLines
    /\ cli_pc = "start"
    /\ cli_stdout = <<"nothing", <<>>>>
    /\ cli_stderr = "nothing"
    /\ cli_raised = "none"
    /\ RecIdle
    /\ ParkIdle

(* One run of `python seasonal_prediction_service.py ...`. *)
RunMain ==
    /\ cli_pc = "start"
    /\ cli_pc' = "exited"
    /\ \E out \in {main(cli_argv, ServiceInit(files))} :
           /\ cli_stdout' = out.stdout
           /\ cli_stderr' = out.stderr
           /\ cli_raised' = out.raised
    /\ IF Len(cli_argv) < 2
       THEN UNCHANGED self_vars
       ELSE /\ _service_instance' = "SeasonalPredictionService"
            /\ models_loaded' = ServiceInit(files).models_loaded
            /\ loaded' = ServiceInit(files).loaded
    /\ UNCHANGED <<cli_argv, env_vars, call_vars>>

NextCli == RunMain /\ UNCHANGED <<rec_vars, park_vars>>

SpecCli == InitCli /\ [][NextCli]_vars

----------------------------------------------------------------------------
(***************************************************************************)
(* A long-lived serving process whose model directory changes under it and *)
(* whose owner calls load_models again.                                    *)
(***************************************************************************)

(* What the model directory holds over the life of the process: as         *)
(* trained, second or last file unreadable, first forest replaced by a     *)
(* regressor.                                                              *)
ReloadDirectories ==
    { AsTrained,
      [AsTrained EXCEPT !["activity_model"] = "absent"],
      [AsTrained EXCEPT !["weather_encoder"] = "absent"],
      [AsTrained EXCEPT !["breeding_model"] = "regressor"] }

InitReload ==
    /\ files \in ReloadDirectories
    /\ trained \in TrainedRuns
    /\ forest_accepts_nan \in BOOLEAN
    /\ _service_instance = "None"
    /\ models_loaded = FALSE
    /\ loaded = [a \in Artifacts |-> "None"]
    /\ NoCall
    /\ RecIdle
    /\ ParkIdle
    /\ CliIdle

(* The files under model_dir are rewritten or removed between two calls. *)
ModelDirChanges ==
    /\ op = "none"
    /\ \E d \in ReloadDirectories \ {files} : files' = d
    /\ UNCHANGED <<trained, forest_accepts_nan, self_vars, call_vars>>

(* service.load_models() on the constructed service. *)
LoadModels ==
    /\ op = "none"
    /\ _service_instance # "None"
    /\ models_loaded' = load_models(files, loaded).models_loaded
    /\ loaded' = load_models(files, loaded).loaded
    /\ op' = "load_models"
    /\ args' = <<>>
    /\ ret' = <<>>
    /\ calls' = <<>>
    /\ probas' = <<>>
    /\ raised' = "none"
    /\ UNCHANGED <<env_vars, _service_instance>>

NextReload ==
    \/ GetPredictionService /\ UNCHANGED <<rec_vars, park_vars, cli_vars>>
    \/ LoadModels /\ UNCHANGED <<rec_vars, park_vars, cli_vars>>
    \/ ModelDirChanges /\ UNCHANGED <<rec_vars, park_vars, cli_vars>>
    \/ PredictSeasonalBehavior /\ UNCHANGED <<rec_vars, park_vars, cli_vars>>
    \/ PrepareFeatures /\ UNCHANGED <<rec_vars, park_vars, cli_vars>>
    \/ BatchPredict /\ UNCHANGED <<rec_vars, park_vars, cli_vars>>
    \/ GetSupportedSpecies /\ UNCHANGED <<rec_vars, park_vars, cli_vars>>
    \/ Consume /\ UNCHANGED <<rec_vars, park_vars, cli_vars>>

SpecReload == InitReload /\ [][NextReload]_vars

----------------------------------------------------------------------------
(* The rule table called on its own. *)
InitRecommendation ==
    /\ rec_impl = "none"
    /\ rec_args \in RecInputs
    /\ rec_out = ""
    /\ ServiceIdle
    /\ ParkIdle
    /\ CliIdle

ServiceGenerateRecommendation ==
    /\ rec_impl = "none"
    /\ rec_impl' = "SeasonalPredictionService"
    /\ rec_out' = _generate_recommendation(rec_args.behavior, rec_args.activity,
                                           rec_args.breeding, rec_args.threat)
    /\ UNCHANGED <<rec_args, service_vars, park_vars, cli_vars>>

PredictorGenerateRecommendation ==
    /\ rec_impl = "none"
    /\ rec_impl' = "SpeciesSeasonalPredictor"
    /\ rec_out' = Predictor_generate_recommendation(rec_args.behavior, rec_args.activity,
                                                    rec_args.breeding, rec_args.threat)
    /\ UNCHANGED <<rec_args, service_vars, park_vars, cli_vars>>

NextRecommendation ==
    \/ ServiceGenerateRecommendation
    \/ PredictorGenerateRecommendation

SpecRecommendation == InitRecommendation /\ [][NextRecommendation]_vars

----------------------------------------------------------------------------
(* C1: the returned message is that of the first matching rule in the      *)
(* order (1) breeding and threat = 'high', (2) breeding, (3) threat =      *)
(* 'high', (4) activity = 'high', (5) activity = 'low', (6) otherwise;     *)
(* it is the same for every behavior argument, and breeding with threat    *)
(* 'high' gives the critical message whatever the activity level.          *)
RuleMatches(n, a) ==
    CASE n = 1 -> a.breeding /\ a.threat = "high"
      [] n = 2 -> a.breeding
      [] n = 3 -> a.threat = "high"
      [] n = 4 -> a.activity = "high"
      [] n = 5 -> a.activity = "low"
      [] OTHER -> TRUE

RuleMessage(n) ==
    <<MsgCritical, MsgBreeding, MsgThreat, MsgSurvey, MsgReduced, MsgStandard>>[n]

FirstMatchingRule(a) ==
    CHOOSE n \in 1..6 : RuleMatches(n, a) /\ \A k \in 1..(n - 1) : ~RuleMatches(k, a)

C1_RuleTable ==
    rec_impl # "none" =>
        /\ rec_out = RuleMessage(FirstMatchingRule(rec_args))
        /\ \A b \in RecBehaviors :
              _generate_recommendation(b, rec_args.activity, rec_args.breeding,
                                       rec_args.threat) = rec_out
        /\ (rec_args.breeding /\ rec_args.threat = "high") => rec_out = MsgCritical

C1_Witness ==
    /\ rec_impl = "SeasonalPredictionService"
    /\ rec_args.breeding /\ rec_args.threat = "high" /\ rec_args.activity = "low"
    /\ rec_out = MsgCritical

----------------------------------------------------------------------------
(* C2: if one of the nine files could not be loaded when the service was   *)
(* constructed, every later predict_seasonal_behavior call (direct, or     *)
(* made by batch_predict for an element) returns the fallback result and   *)
(* invokes no encoder and no model.                                        *)
LoadFailedAtConstruction ==
    /\ _service_instance # "None"
    /\ \E a \in Artifacts : files[a] = "absent"

C2_FailedLoadShortCircuits ==
    LoadFailedAtConstruction =>
        /\ op = "predict_seasonal_behavior" =>
              /\ raised = "none"
              /\ ret = _get_fallback_prediction
              /\ calls = <<>>
        /\ (op = "batch_predict" /\ raised = "none") =>
              /\ calls = <<>>
              /\ \A i \in 1..Len(ret) : ret[i].prediction = _get_fallback_prediction

C2_Witness ==
    /\ op = "predict_seasonal_behavior"
    /\ files["weather_encoder"] = "absent"
    /\ loaded["species_encoder"] = "trained"
    /\ args.species = "Tiger" /\ args.month = Some(12)
    /\ ret.success = FALSE
    /\ calls = <<>>

(* C3: when a step of a prediction with loaded models fails (feature       *)
(* preparation, one of the five model predictions, decoding the behavior,  *)
(* or one of the probability computations), the call returns the fixed     *)
(* fallback record with success = false, and nothing computed before the   *)
(* failure shows in it.                                                    *)
SomeStepFails(r) ==
    LET f == prepare_features(Self, r.species, r.month, r.migration_tendency,
                              r.weather_preference)
    IN  \/ f.raised # "none"
        \/ \E i \in 1..Len(PredictSteps) :
              StepOutcome(Self, PredictSteps[i], f.X) # "ok"

C3_FailureGivesFallback ==
    (op = "predict_seasonal_behavior" /\ models_loaded /\ SomeStepFails(args)) =>
        /\ raised = "none"
        /\ ret.primaryBehavior = "normal_activity"
        /\ ret.breedingSeason = FALSE
        /\ ret.breedingPeak = FALSE
        /\ ret.activityLevel = "Normal"
        /\ ret.threatLevel = "Low"
        /\ ret.populationPeak = FALSE
        /\ ret.recommendation = "Continue regular monitoring"
        /\ ret.confidence.percent = NoValue
        /\ ret.success = FALSE
        /\ ret = _get_fallback_prediction

(* A regressor stored as threat_model: five predictions, the decoding and  *)
(* two probabilities are computed before threat_model.predict_proba fails. *)
C3_Witness ==
    /\ op = "predict_seasonal_behavior"
    /\ models_loaded
    /\ loaded["threat_model"] = "regressor"
    /\ Len(calls) > 0
    /\ calls[Len(calls)] = Call("threat_model", "predict_proba")
    /\ Len(probas) = 2
    /\ ret.success = FALSE

(* C4: in prepare_features with loaded encoders, a category outside its    *)
(* encoder's vocabulary is replaced by code 0 for that feature only; every *)
(* feature whose category is in the vocabulary keeps its fitted code, the  *)
(* month is passed through, the order is [species, month, migration,       *)
(* weather], and no error reaches the caller.                              *)
ExpectedCode(enc, value) ==
    IF value \in Range(ClassesOf(enc)) THEN TransformCode(enc, value) ELSE 0

EncodersAsTrained ==
    \A i \in 1..Len(FeatureEncoders) : loaded[FeatureEncoders[i]] = "trained"

C4_SentinelOnlyForUnknown ==
    (op = "prepare_features" /\ models_loaded /\ EncodersAsTrained) =>
        /\ raised = "none"
        /\ ret = << ExpectedCode("species_encoder", args.species),
                    args.month,
                    ExpectedCode("migration_encoder",
                        IF args.migration_tendency = None THEN "territorial"
                        ELSE args.migration_tendency),
                    ExpectedCode("weather_encoder",
                        IF args.weather_preference = None THEN "moderate"
                        ELSE args.weather_preference) >>

(* C5: batch_predict over N elements returns N results in input order,     *)
(* result i being what predict_seasonal_behavior returns for element i     *)
(* alone; a malformed element (missing species or month, or not a dict)    *)
(* gets the fallback result and the batch never fails as a whole.          *)
WellFormed(item) ==
    item.kind = "dict" /\ {"species", "month"} \subseteq item.keys

C5_BatchIsolatesElements ==
    op = "batch_predict" =>
        /\ raised = "none"
        /\ Len(ret) = Len(args)
        /\ \A i \in 1..Len(args) :
              ret[i].prediction =
                  IF WellFormed(args[i]) THEN PredictItem(Self, args[i]).ret
                  ELSE _get_fallback_prediction

(* C6: with the trained models loaded, a prediction for a species/month    *)
(* pair of the training data succeeds; and in every result, successful or  *)
(* fallback, breedingPeak = populationPeak AND breedingSeason.             *)
TrainedModelsLoaded ==
    models_loaded /\ \A a \in Artifacts : loaded[a] = "trained"

InTrainingData(r) ==
    /\ r.species \in Range(trained.species_classes)
    /\ r.month # NoValue
    /\ r.month[1] \in trained.months

C6_TrainedPairsSucceed ==
    op = "predict_seasonal_behavior" =>
        /\ ret.breedingPeak = (ret.populationPeak /\ ret.breedingSeason)
        /\ (TrainedModelsLoaded /\ InTrainingData(args)) => ret.success = TRUE

(* A successful prediction in the breeding season but off the population   *)
(* peak, for a request whose default categories the encoders never saw.    *)
C6_Witness ==
    /\ op = "predict_seasonal_behavior"
    /\ TrainedModelsLoaded /\ InTrainingData(args)
    /\ args.migration_tendency = None
    /\ "territorial" \notin Range(trained.migration_classes)
    /\ ret.success = TRUE
    /\ ret.breedingSeason /\ ~ret.populationPeak /\ ~ret.breedingPeak

(* C7: the confidence of every result is the fallback sentinel or a        *)
(* percentage between 0% and 100%; in a successful prediction it is the    *)
(* formatted mean of exactly the four maximum class probabilities of the   *)
(* breeding, activity, threat and behavior models (predict_proba is not    *)
(* called on the population model), and the mean lies between the smallest *)
(* and the largest of the four.                                            *)
ProbaCalls == SelectSeq(calls, LAMBDA c : c[2] = "predict_proba")

C7_ConfidenceIsMeanOfFour ==
    op = "predict_seasonal_behavior" =>
        /\ \/ ret.confidence = _get_fallback_prediction.confidence
           \/ /\ ret.confidence.text = "High - AI Model"
              /\ ret.confidence.percent # NoValue
              /\ ret.confidence.percent[1] \in 0..10000
        /\ ret.success =>
              /\ ProbaCalls = [i \in 1..4 |-> Call(ConfidenceModels[i], "predict_proba")]
              /\ Len(probas) = 4
              /\ \A i \in 1..4 : probas[i] \in 0..ProbUnits
              /\ ret.confidence.percent =
                    Some(FormatPercent(probas[1] + probas[2] + probas[3] + probas[4],
                                       4 * ProbUnits))
              /\ \E lo, hi \in Range(probas) :
                    /\ \A v \in Range(probas) : lo <= v /\ v <= hi
                    /\ 4 * lo <= probas[1] + probas[2] + probas[3] + probas[4]
                    /\ probas[1] + probas[2] + probas[3] + probas[4] <= 4 * hi
                    /\ FormatPercent(lo, ProbUnits) <= ret.confidence.percent[1]
                    /\ ret.confidence.percent[1] <= FormatPercent(hi, ProbUnits)

(* Four different probabilities whose mean needs rounding. *)
C7_Witness ==
    /\ op = "predict_seasonal_behavior"
    /\ ret.success
    /\ Cardinality(Range(probas)) > 1
    /\ (10000 * SumSeq(probas)) % (4 * ProbUnits) # 0

(* C8: every malformed argument of the park recommender (none, text that   *)
(* is not JSON, or JSON that is not an object) is reported as an           *)
(* {"error": ...} object and the run ends with exit status 0.              *)
MalformedParkInput ==
    park_argv = <<>> \/ park_argv[1].kind # "object"

C8_MalformedInputReported ==
    (park_pc = "exited" /\ park_model = "trained" /\ MalformedParkInput) =>
        /\ park_stdout[1] = "error"
        /\ park_exit = Some(0)

(* C9: for an object argument the recommender builds the vector in         *)
(* FEATURE_ORDER with 0 for each missing feature and prints min(3, number  *)
(* of classes) {park, score} pairs: the classes of highest probability, in *)
(* descending score order, parks distinct, each score in [0,1], the scores *)
(* summing to at most 1.                                                   *)
ParkRecs == park_stdout[2]

C9_TopThreeDescending ==
    (park_pc = "exited" /\ park_model = "trained" /\ ~MalformedParkInput) =>
        /\ park_exit = Some(0)
        /\ park_stdout[1] = "recommendations"
        /\ Len(park_vector) = 16
        /\ \A i \in 1..16 :
              park_vector[i] =
                  IF FEATURE_ORDER[i] \in DOMAIN park_argv[1].d
                  THEN park_argv[1].d[FEATURE_ORDER[i]] ELSE 0
        /\ Len(ParkRecs) = Min(3, Len(park_classes))
        /\ \A i \in 1..(Len(ParkRecs) - 1) : ParkRecs[i].score >= ParkRecs[i + 1].score
        /\ \A i, j \in 1..Len(ParkRecs) : i # j => ParkRecs[i].park # ParkRecs[j].park
        /\ \A i \in 1..Len(ParkRecs) :
              /\ ParkRecs[i].score \in 0..ProbUnits
              /\ \E c \in 1..Len(park_classes) :
                    /\ park_classes[c] = ParkRecs[i].park
                    /\ park_probs[c] = ParkRecs[i].score
        /\ SumSeq([i \in 1..Len(ParkRecs) |-> ParkRecs[i].score]) <= ProbUnits
        /\ \A c \in 1..Len(park_classes) :
              (\A i \in 1..Len(ParkRecs) : ParkRecs[i].park # park_classes[c]) =>
                  \A i \in 1..Len(ParkRecs) : park_probs[c] <= ParkRecs[i].score

(* Four parks with different probabilities, two features given, the rest   *)
(* defaulted: the least likely park is left out.                           *)
C9_Witness ==
    /\ park_pc = "exited"
    /\ park_stdout[1] = "recommendations"
    /\ DOMAIN park_argv[1].d = {"mammals", "hiking"}
    /\ park_argv[1].d["hiking"] = 1
    /\ Len(park_classes) = 4
    /\ Len(ParkRecs) = 3
    /\ ParkRecs[1].score > ParkRecs[2].score
    /\ ParkRecs[2].score > ParkRecs[3].score
    /\ SumSeq([i \in 1..3 |-> ParkRecs[i].score]) < ProbUnits

(* C10 as stated: every run of the service's command line ends without an  *)
(* uncaught exception; 'predict' with a species and an integer month       *)
(* prints a JSON prediction object, 'get_supported_species' a JSON array,  *)
(* an unknown command a JSON error object, and missing arguments (no       *)
(* command, 'predict' without species or month) or a non-integer month a   *)
(* JSON error object.                                                      *)
IsIntegerText(text) ==
    \E sign \in {<<>>, <<"-">>, <<"+">>} :
        \E digits \in UNION {[1..n -> Range(DigitChars)] : n \in 1..Len(text)} :
            text = sign \o digits

DocumentedOutput(argv, out) ==
    IF argv[2] = "predict"
    THEN IF Len(argv) < 4 \/ ~IsIntegerText(argv[4])
         THEN out[1] = "json error"
         ELSE out[1] = "json object" /\ DOMAIN out[2] = DOMAIN _get_fallback_prediction
    ELSE IF argv[2] = "get_supported_species" THEN out[1] = "json array"
    ELSE IF argv[2] = "test" THEN out[1] = "nothing"
    ELSE out[1] = "json error"

----------------------------------------------------------------------------
(* C11: get_prediction_service constructs the service and loads the models *)
(* on its first call only and hands back that instance afterwards; no      *)
(* later get_prediction_service, predict_seasonal_behavior, batch_predict, *)
(* get_supported_species or prepare_features call changes models_loaded or *)
(* any of the nine loaded artifacts, whatever has happened to the files;   *)
(* and what a prediction returns is determined by the request and the      *)
(* loaded state alone.                                                     *)
ReadOnlyCalls ==
    {"get_prediction_service", "predict_seasonal_behavior", "batch_predict",
     "get_supported_species", "prepare_features"}

C11_LoadedOnceThenReadOnly ==
    /\ [][(_service_instance # "None" /\ op' \in ReadOnlyCalls)
             => UNCHANGED <<_service_instance, models_loaded, loaded>>]_vars
    /\ [][(_service_instance = "None" /\ _service_instance' # "None")
             => /\ op' = "get_prediction_service"
                /\ models_loaded' = ServiceInit(files).models_loaded
                /\ loaded' = ServiceInit(files).loaded]_vars
    /\ [](op = "predict_seasonal_behavior" =>
             ret = predict_seasonal_behavior(Self, args.species, args.month,
                       args.migration_tendency, args.weather_preference).ret)
    /\ [](op = "get_supported_species" => ret = get_supported_species(Self))

(* A later get_prediction_service call returned while the directory no     *)
(* longer holds what the instance loaded.                                  *)
C11_Witness ==
    /\ op = "get_prediction_service"
    /\ models_loaded
    /\ loaded = AsTrained
    /\ files["activity_model"] = "absent"

----------------------------------------------------------------------------
(* C12: predict_seasonal_behavior of the service never raises: whatever    *)
(* the species (in the training vocabulary or not), the month, the         *)
(* migration tendency and the weather preference, and whether or not the   *)
(* models are loaded, it returns a record with exactly the ten keys        *)
(* primaryBehavior, breedingSeason, breedingPeak, activityLevel,           *)
(* threatLevel, migrationTendency, populationPeak, recommendation,         *)
(* confidence and success, the three flags and success being booleans.     *)
ResultKeys ==
    {"primaryBehavior", "breedingSeason", "breedingPeak", "activityLevel",
     "threatLevel", "migrationTendency", "populationPeak", "recommendation",
     "confidence", "success"}

WellFormedResult(r) ==
    /\ DOMAIN r = ResultKeys
    /\ {r.breedingSeason, r.breedingPeak, r.populationPeak, r.success} \subseteq BOOLEAN
    /\ r.confidence.text \in {"High - AI Model",
                              "Low - Models not available, using fallback"}
    /\ r.success = (r.confidence.percent # NoValue)

C12_PredictNeverRaises ==
    op = "predict_seasonal_behavior" =>
        /\ raised = "none"
        /\ WellFormedResult(ret)

(* A species the encoders never saw and no month, predicted with the       *)
(* models loaded: the sentinel row gives a prediction.                     *)
C12_Witness ==
    /\ op = "predict_seasonal_behavior"
    /\ args.species = "Unicorn"
    /\ args.month = NoValue
    /\ models_loaded
    /\ ret.success

----------------------------------------------------------------------------
(* C13: after construction and after any sequence of load_models calls,    *)
(* each of which may fail at any file, models_loaded is true only if all   *)
(* five models and all four encoders are set; a load_models call leaves    *)
(* models_loaded true exactly when none of its nine loads failed, the      *)
(* artifacts read before the failing file are assigned and the others keep *)
(* what they held; and prepare_features raises, encoding nothing, whenever *)
(* models_loaded is false.                                                 *)
AllArtifactsSet == \A a \in Artifacts : loaded[a] # "None"

C13_FlagOnlyAfterCompleteLoad ==
    /\ [](models_loaded => AllArtifactsSet)
    /\ [](op = "load_models" =>
             /\ models_loaded = (\A a \in Artifacts : files[a] # "absent")
             /\ \A a \in Artifacts :
                   PositionOf(a) < FirstAbsent(files) => loaded[a] = files[a])
    /\ [][op' = "load_models" =>
             \A a \in Artifacts :
                 PositionOf(a) >= FirstAbsent(files) => loaded'[a] = loaded[a]]_vars
    /\ []((op = "prepare_features" /\ ~models_loaded) =>
             /\ raised = "Exception"
             /\ ret = <<>>
             /\ calls = <<>>)

(* A load that failed at the second file after an earlier complete load:   *)
(* all nine artifacts are set, the flag is false.                          *)
C13_Witness ==
    /\ op = "load_models"
    /\ files["activity_model"] = "absent"
    /\ AllArtifactsSet
    /\ ~models_loaded

====
